---- MODULE Spec2Model ----
(***************************************************************************)
(* The mortgage refinance calculator component                             *)
(* (src/src/components/MortgageCalculatorMismo - Copy.tsx).                *)
(*                                                                         *)
(* The component is a set of React state hooks (the inputs), four effects  *)
(* that run after a render whose dependencies changed, and a chain of      *)
(* derived values recomputed on every render.  The hooks are the           *)
(* variables, every input handler and the effect flush are actions, and    *)
(* the derived values are state functions with the names of the source.    *)
(*                                                                         *)
(* Number representation.  The source computes in IEEE doubles; here       *)
(* every quantity is fixed-point, and every division truncates downwards:  *)
(*   money                         whole currency units                    *)
(*   percents (points, note rate)  thousandths of a percent  (PctScale)    *)
(*   fractions (fee and MI rates)  hundred-thousandths       (FracScale)   *)
(*   the monthly rate r, (1+r)^-n  1/36000                   (RScale)      *)
(*   loan-to-value                 tenths of a percent       (LtvScale)    *)
(* The payment of the worked example is also computed in cents, at eight   *)
(* decimals (CentScale).                                                   *)
(* A blank input field (the empty string) is the empty sequence <<>>, a    *)
(* number v in a field is <<v>>.                                           *)
(***************************************************************************)
EXTENDS Integers, Sequences, FiniteSets, TLC

VARIABLES loanType, appraisedValue, balance, cashOut, monthlyEscrow,
          escrowMonths, debtPaid, debtMonthly, currentPITI, pureCashOut,
          uwmPoints, branchGenPointsInput, interestRate, termYears,
          bankFee, titleFee, isFundingFeeExempt, mortgageInsuranceRate,
          twoOneBuydown, oneZeroBuydown, dirty

vars == <<loanType, appraisedValue, balance, cashOut, monthlyEscrow,
          escrowMonths, debtPaid, debtMonthly, currentPITI, pureCashOut,
          uwmPoints, branchGenPointsInput, interestRate, termYears,
          bankFee, titleFee, isFundingFeeExempt, mortgageInsuranceRate,
          twoOneBuydown, oneZeroBuydown, dirty>>

(***************************************************************************)
(* Bound: the cash-out amounts typed are the multiples of 10000 up to      *)
(* MaxCashOut times 10000.                                                 *)
(***************************************************************************)
MaxCashOut == 2

(***************************************************************************)
(* Scales of the fixed-point representation.                               *)
(***************************************************************************)
PctScale == 1000
FracScale == 100000
RScale == 36000
LtvScale == 10

(***************************************************************************)
(* Program constants.                                                      *)
(***************************************************************************)
VA_FUNDING_FEE_RATE == 3300
VA_IRRRL_FEE_RATE == 500
FHA_UFMIP_RATE == 1750
FHA_ANNUAL_MIP == 550
TOTAL_POINTS_ALERT == 4750

LoanTypes == {"Conventional", "VA", "FHA", "VA IRRRL"}

Blank == <<>>

(***************************************************************************)
(* The values typed into the fields.                                       *)
(***************************************************************************)
CashOutValues == {Blank} \cup {<<10000 * k>> : k \in 1..MaxCashOut}
DebtPaidValues == {Blank, <<15000>>}
DebtMonthlyValues == {Blank, <<500>>}
CurrentPITIValues == {Blank, <<2200>>}
BalanceValues == {Blank, <<200000>>, <<-100000>>}
AppraisedValues == {Blank, <<250000>>}
EscrowValues == {Blank, <<400>>}
BankFeeValues == {Blank, <<2350>>}
InterestRateValues == {Blank, <<1000>>, <<6500>>}
BranchGenValues == {Blank, <<2250>>}

Max(a, b) == IF a >= b THEN a ELSE b
Min(a, b) == IF a <= b THEN a ELSE b

\* n: blank -> 0, a number -> itself
n(v) == IF v = Blank THEN 0 ELSE v[1]

(***************************************************************************)
(* Derived values: recomputed from the hooks on every render.              *)
(***************************************************************************)
escrowCost == n(monthlyEscrow) * n(escrowMonths)

\* mutant: the raw cash-out is used for every program
effectiveCashOut_raw == n(cashOut)

\* no cash-out for IRRRL
effectiveCashOut == IF loanType = "VA IRRRL" THEN 0 ELSE n(cashOut)

baseLoanBeforePoints ==
    n(balance) + n(bankFee) + n(titleFee) + escrowCost + effectiveCashOut

\* mutant: the two funding-fee rates are exchanged
fundingFee_swapped ==
    IF ~isFundingFeeExempt
    THEN IF loanType = "VA"
         THEN (baseLoanBeforePoints * VA_IRRRL_FEE_RATE) \div FracScale
         ELSE IF loanType = "VA IRRRL"
              THEN (baseLoanBeforePoints * VA_FUNDING_FEE_RATE) \div FracScale
              ELSE 0
    ELSE 0

fundingFee ==
    IF ~isFundingFeeExempt
    THEN IF loanType = "VA"
         THEN (baseLoanBeforePoints * VA_FUNDING_FEE_RATE) \div FracScale
         ELSE IF loanType = "VA IRRRL"
              THEN (baseLoanBeforePoints * VA_IRRRL_FEE_RATE) \div FracScale
              ELSE 0
    ELSE 0

\* mutant: the exemption flag also waives the FHA premium
ufmip_exempt ==
    IF loanType = "FHA" /\ ~isFundingFeeExempt
    THEN (baseLoanBeforePoints * FHA_UFMIP_RATE) \div FracScale
    ELSE 0

ufmip ==
    IF loanType = "FHA"
    THEN (baseLoanBeforePoints * FHA_UFMIP_RATE) \div FracScale
    ELSE 0

baseLoanWithGovFee == baseLoanBeforePoints + fundingFee + ufmip

uwmPts == n(uwmPoints)
bgPts == n(branchGenPointsInput)
totalPointsEntered == uwmPts + bgPts
\* mutant: the points charged are capped at the alert threshold
pointsCost_capped ==
    (baseLoanWithGovFee * Min(totalPointsEntered, TOTAL_POINTS_ALERT))
        \div FracScale

\* totalPointsEntered / 100 is a fraction; a percent at PctScale divided
\* by 100 is that fraction at FracScale
pointsCost ==
    (baseLoanWithGovFee * ((totalPointsEntered * FracScale) \div (PctScale * 100)))
        \div FracScale
pointsTooHigh == totalPointsEntered > TOTAL_POINTS_ALERT

\* mutant: the prepaid escrow is left out of the costs
baseTotalCostsNoBuydown_noEscrow ==
    n(bankFee) + n(titleFee) + pointsCost + fundingFee + ufmip

baseTotalCostsNoBuydown ==
    n(bankFee) + n(titleFee) + escrowCost + pointsCost + fundingFee + ufmip
finalLoanPreBuydown == n(balance) + effectiveCashOut + baseTotalCostsNoBuydown

(***************************************************************************)
(* Math.pow(1 + r, -nper) for 1 + r >= 1 and nper >= 1, at RScale:         *)
(* powInv(x, k) is x^k for the reciprocal x = 1/(1+r) <= 1, by squaring.   *)
(***************************************************************************)
RECURSIVE powInv(_, _)
powInv(x, k) ==
    IF k = 0 THEN RScale
    ELSE IF k % 2 = 0
         THEN LET h == powInv(x, k \div 2) IN (h * h) \div RScale
         ELSE (x * powInv(x, k - 1)) \div RScale

pow(onePlusR, negNper) == powInv((RScale * RScale) \div onePlusR, 0 - negNper)

(***************************************************************************)
(* The divisor of the payment quotient.  The source tests r === 0 on the   *)
(* monthly rate itself, which is 0 only for an annual rate <= 0, and then  *)
(* forms 1 + r in the precision of its numbers: a positive r below that    *)
(* precision (1/RScale here, about 1.1e-16 in the doubles of the source)   *)
(* leaves 1 + r equal to 1, the power equal to 1 and the divisor 0.        *)
(***************************************************************************)
monthlyPIDivisor(annualRatePct, termYearsLocal) ==
    LET r == (Max(0, annualRatePct) * RScale) \div (PctScale * 100 * 12)
        nper == Max(1, termYearsLocal * 12)
    IN  IF Max(0, annualRatePct) = 0 THEN nper
        ELSE RScale - pow(RScale + r, 0 - nper)

\* mutant: the exponent of Math.pow has lost its sign
monthlyPI_posExp(annualRatePct, principal, termYearsLocal) ==
    LET r == (Max(0, annualRatePct) * RScale) \div (PctScale * 100 * 12)
        nper == Max(1, termYearsLocal * 12)
    IN  IF r = 0 THEN principal \div nper
        ELSE (principal * r)
                 \div (RScale - (RScale * RScale) \div pow(RScale + r, 0 - nper))

\* With a divisor of 0 the quotient of the source is Infinity or NaN, which
\* no number here stands for: the value is then 0 and monthlyPIDivisor
\* tells that it is not a payment.
monthlyPI(annualRatePct, principal, termYearsLocal) ==
    LET r == (Max(0, annualRatePct) * RScale) \div (PctScale * 100 * 12)
        nper == Max(1, termYearsLocal * 12)
        divisor == monthlyPIDivisor(annualRatePct, termYearsLocal)
    IN  IF Max(0, annualRatePct) = 0 THEN principal \div nper
        ELSE IF divisor = 0 THEN 0
        ELSE (principal * r) \div divisor

(***************************************************************************)
(* The payment in cents.  The same function, computed at CentScale (eight  *)
(* decimals) for the worked figures that are given to the cent.  Numbers   *)
(* at CentScale are multiplied limb by limb (Limb is the square root of    *)
(* CentScale) and divided by long division, one decimal digit a step, so   *)
(* that no intermediate product leaves the 32-bit integers.                *)
(***************************************************************************)
CentScale == 100000000
Limb == 10000

\* floor(x * y / CentScale)
mulC(x, y) ==
    LET xh == x \div Limb
        xl == x % Limb
        yh == y \div Limb
        yl == y % Limb
    IN  xh * yh + (xh * yl + xl * yh + (xl * yl) \div Limb) \div Limb

\* q * 10^k + floor(rem * 10^k / b), for 0 <= rem < b
RECURSIVE longDiv(_, _, _, _)
longDiv(q, rem, b, k) ==
    IF k = 0 THEN q
    ELSE longDiv(q * 10 + (rem * 10) \div b, (rem * 10) % b, b, k - 1)

\* floor(a * CentScale / b), for a >= 0 and b > 0
divC(a, b) == longDiv(a \div b, a % b, b, 8)

\* x^k at CentScale, for 0 <= x <= CentScale
RECURSIVE powC(_, _)
powC(x, k) ==
    IF k = 0 THEN CentScale
    ELSE IF k % 2 = 0
         THEN LET h == powC(x, k \div 2) IN mulC(h, h)
         ELSE mulC(x, powC(x, k - 1))

\* mutant: the term is taken in years where months are meant
monthlyPICents_years(annualRatePct, principal, termYearsLocal) ==
    LET r == (Max(0, annualRatePct) * (CentScale \div (PctScale * 100 * 4))) \div 3
        nper == Max(1, termYearsLocal)
        divisor == CentScale - powC(CentScale - divC(r, CentScale + r), nper)
    IN  IF Max(0, annualRatePct) = 0 THEN (principal * 100) \div nper
        ELSE IF divisor = 0 THEN 0
        ELSE mulC(principal * 100, divC(r, divisor))

\* r = rate / 100 / 12 at CentScale; 1 / (1 + r) is 1 - r / (1 + r)
monthlyPICents(annualRatePct, principal, termYearsLocal) ==
    LET r == (Max(0, annualRatePct) * (CentScale \div (PctScale * 100 * 4))) \div 3
        nper == Max(1, termYearsLocal * 12)
        divisor == CentScale - powC(CentScale - divC(r, CentScale + r), nper)
    IN  IF Max(0, annualRatePct) = 0 THEN (principal * 100) \div nper
        ELSE IF divisor = 0 THEN 0
        ELSE mulC(principal * 100, divC(r, divisor))

\* Pre-buydown preview (used for subsidy costing)
PI_pre == monthlyPI(n(interestRate), finalLoanPreBuydown, n(termYears))
mipMonthly_pre ==
    IF loanType = "FHA"
    THEN (finalLoanPreBuydown * FHA_ANNUAL_MIP) \div (FracScale * 12)
    ELSE 0
ltv_pre ==
    IF n(appraisedValue) > 0
    THEN (finalLoanPreBuydown * 100 * LtvScale) \div n(appraisedValue)
    ELSE 0
miMonthly_pre ==
    IF loanType = "Conventional" /\ ltv_pre > 80 * LtvScale
    THEN (finalLoanPreBuydown * n(mortgageInsuranceRate)) \div (FracScale * 12)
    ELSE 0
basePITI_pre == PI_pre + n(monthlyEscrow) + mipMonthly_pre + miMonthly_pre

\* mutant: a 2/1 buydown lowers the Year-1 rate by one point only
y1RatePct_pre_onePoint ==
    IF loanType = "Conventional" /\ (twoOneBuydown \/ oneZeroBuydown)
    THEN n(interestRate) - 1 * PctScale
    ELSE n(interestRate)

y1RatePct_pre ==
    IF loanType = "Conventional" /\ (twoOneBuydown \/ oneZeroBuydown)
    THEN IF twoOneBuydown THEN n(interestRate) - 2 * PctScale
                          ELSE n(interestRate) - 1 * PctScale
    ELSE n(interestRate)
y2RatePct_pre ==
    IF loanType = "Conventional" /\ twoOneBuydown
    THEN n(interestRate) - 1 * PctScale
    ELSE n(interestRate)
y1PI_pre == monthlyPI(y1RatePct_pre, finalLoanPreBuydown, n(termYears))
y2PI_pre == monthlyPI(y2RatePct_pre, finalLoanPreBuydown, n(termYears))
\* mutant: the Year-1 payment leaves the escrow out
y1PITI_pre_noEscrow == y1PI_pre + mipMonthly_pre + miMonthly_pre

y1PITI_pre == y1PI_pre + n(monthlyEscrow) + mipMonthly_pre + miMonthly_pre
y2PITI_pre == y2PI_pre + n(monthlyEscrow) + mipMonthly_pre + miMonthly_pre

\* mutant: the Year-1 difference is not floored
diffY1_unfloored == basePITI_pre - y1PITI_pre

diffY1 == Max(0, basePITI_pre - y1PITI_pre)
diffY2 == IF twoOneBuydown THEN Max(0, basePITI_pre - y2PITI_pre) ELSE 0
buydownSubsidyCost ==
    IF loanType = "Conventional"
    THEN IF oneZeroBuydown \/ twoOneBuydown
         THEN diffY1 * 12 + (IF twoOneBuydown THEN diffY2 * 12 ELSE 0)
         ELSE 0
    ELSE 0

finalLoanAmount == finalLoanPreBuydown + buydownSubsidyCost

PI == monthlyPI(n(interestRate), finalLoanAmount, n(termYears))
mipMonthly ==
    IF loanType = "FHA"
    THEN (finalLoanAmount * FHA_ANNUAL_MIP) \div (FracScale * 12)
    ELSE 0
ltv ==
    IF n(appraisedValue) > 0
    THEN (finalLoanAmount * 100 * LtvScale) \div n(appraisedValue)
    ELSE 0
\* mutant: MI is charged from 80% on
miMonthly_fromEighty ==
    IF loanType = "Conventional" /\ ltv >= 80 * LtvScale
    THEN (finalLoanAmount * n(mortgageInsuranceRate)) \div (FracScale * 12)
    ELSE 0

miMonthly ==
    IF loanType = "Conventional" /\ ltv > 80 * LtvScale
    THEN (finalLoanAmount * n(mortgageInsuranceRate)) \div (FracScale * 12)
    ELSE 0
\* NEW monthly PITI
basePITI == PI + n(monthlyEscrow) + mipMonthly + miMonthly

\* the payment on the final loan amount, in cents
PICents == monthlyPICents(n(interestRate), finalLoanAmount, n(termYears))

\* mutant: the pure-cash-out flag is not consulted
isConsolidating_noPure ==
    /\ effectiveCashOut > 0
    /\ (n(debtPaid) > 0 \/ n(debtMonthly) > 0)

\* Debt consolidation conditions
isConsolidating ==
    /\ effectiveCashOut > 0
    /\ ~pureCashOut
    /\ (n(debtPaid) > 0 \/ n(debtMonthly) > 0)
\* mutant: the whole debt is applied, not capped by the cash-out
debtPaidApplied_uncapped == IF isConsolidating THEN n(debtPaid) ELSE 0

debtPaidApplied == IF isConsolidating THEN Min(effectiveCashOut, n(debtPaid)) ELSE 0
cashToBorrower ==
    IF isConsolidating THEN Max(0, effectiveCashOut - debtPaidApplied)
                       ELSE effectiveCashOut

\* Savings vs previous
prevPITI == n(currentPITI)
\* mutant: the saving is not floored
savingsVsPrev_unfloored == prevPITI - basePITI

savingsVsPrev == Max(0, prevPITI - basePITI)

\* Debt consolidation savings: (prev PITI + previous monthly debt) - NEW PITI
\* mutant: the outflow is reported whether or not debt is consolidated
dcTotalPrevOutflow_ungated == prevPITI + n(debtMonthly)

dcTotalPrevOutflow == IF isConsolidating THEN prevPITI + n(debtMonthly) ELSE 0
dcMonthlySavings == IF isConsolidating THEN Max(0, dcTotalPrevOutflow - basePITI) ELSE 0

showTempBuydown == loanType = "Conventional" /\ (twoOneBuydown \/ oneZeroBuydown)

feeAmount == IF loanType = "FHA" THEN ufmip ELSE fundingFee

twoOneDisabled == loanType = "Conventional" /\ effectiveCashOut > 0
oneZeroDisabled == loanType = "Conventional" /\ effectiveCashOut > 0

\* mutant: the advisory looks at the stored cash-out
showCashOutNoConsolWarning_stored ==
    n(cashOut) > 0 /\ ~pureCashOut /\ n(debtPaid) = 0 /\ n(debtMonthly) = 0

showCashOutNoConsolWarning ==
    effectiveCashOut > 0 /\ ~pureCashOut /\ n(debtPaid) = 0 /\ n(debtMonthly) = 0

(***************************************************************************)
(* Program/LTV warnings, and the MI advisory as the warnings block renders *)
(* it.                                                                     *)
(***************************************************************************)
fhaLtvImpossible == loanType = "FHA" /\ ltv > 80 * LtvScale
\* MI will apply
convMiWarning == loanType = "Conventional" /\ ltv > 80 * LtvScale
\* cash-out not allowed
convCashoutOver80 ==
    loanType = "Conventional" /\ effectiveCashOut > 0 /\ ltv > 80 * LtvScale

\* mutant: the rate/term flag does not look at the cash-out
convRateTermOver96_anyCashOut == loanType = "Conventional" /\ ltv > 96 * LtvScale

\* rate/term over 96 not allowed
convRateTermOver96 ==
    loanType = "Conventional" /\ effectiveCashOut = 0 /\ ltv > 96 * LtvScale

showConvMiWarning ==
    loanType = "Conventional" /\ convMiWarning /\ ~convCashoutOver80

(***************************************************************************)
(* Compensation: the tier is inferred from the branch points, the basis    *)
(* points of the tier are applied to the final loan amount.                *)
(***************************************************************************)
NoTier == "-"

LO_COMP_BPS == [BG1 |-> 100, BG2 |-> 75, BG3 |-> 50, BG4 |-> 25]
LOA_COMP_BPS == [BG1 |-> 80, BG2 |-> 60, BG3 |-> 50, BG4 |-> 25]

\* mutant: the lower edge of every tier is exclusive
deriveBgTier_exclusive(bgPct) ==
    IF bgPct > 2250 /\ bgPct <= 3000 THEN "BG1"
    ELSE IF bgPct > 1500 /\ bgPct < 2250 THEN "BG2"
    ELSE IF bgPct > 750 /\ bgPct < 1500 THEN "BG3"
    ELSE IF bgPct <= 740 /\ bgPct > 0 THEN "BG4"
    ELSE NoTier

\* inclusive lower bounds, the higher tier wins at the boundary
deriveBgTier(bgPct) ==
    IF bgPct >= 2250 /\ bgPct <= 3000 THEN "BG1"
    ELSE IF bgPct >= 1500 /\ bgPct < 2250 THEN "BG2"
    ELSE IF bgPct >= 750 /\ bgPct < 1500 THEN "BG3"
    ELSE IF bgPct <= 740 /\ bgPct > 0 THEN "BG4"
    ELSE IF bgPct = 0 THEN NoTier
    ELSE NoTier

inferredBgTier == deriveBgTier(n(branchGenPointsInput))

loCompBps ==
    IF inferredBgTier \in DOMAIN LO_COMP_BPS THEN LO_COMP_BPS[inferredBgTier] ELSE 0

\* mutant: the associate is paid the loan officer's basis points
loaCompBps_asOfficer ==
    IF inferredBgTier \in DOMAIN LO_COMP_BPS THEN LO_COMP_BPS[inferredBgTier] ELSE 0

loaCompBps ==
    IF inferredBgTier \in DOMAIN LOA_COMP_BPS THEN LOA_COMP_BPS[inferredBgTier] ELSE 0
loCompensation == (finalLoanAmount * loCompBps) \div 10000
loaCompensation == (finalLoanAmount * loaCompBps) \div 10000

(***************************************************************************)
(* The state after construction: the useState initial values, with the     *)
(* effects of the first render still to run.                               *)
(***************************************************************************)
Init ==
    /\ loanType = "Conventional"
    /\ appraisedValue = Blank
    /\ balance = Blank
    /\ cashOut = Blank
    /\ monthlyEscrow = Blank
    /\ escrowMonths = <<2>>
    /\ debtPaid = Blank
    /\ debtMonthly = Blank
    /\ currentPITI = Blank
    /\ pureCashOut = FALSE
    /\ uwmPoints = Blank
    /\ branchGenPointsInput = Blank
    /\ interestRate = Blank
    /\ termYears = <<30>>
    /\ bankFee = <<2350>>
    /\ titleFee = Blank
    /\ isFundingFeeExempt = FALSE
    /\ mortgageInsuranceRate = <<600>>
    /\ twoOneBuydown = FALSE
    /\ oneZeroBuydown = FALSE
    /\ dirty = {"loanType", "cashOut"}

(***************************************************************************)
(* The four effects.  They run together after a render in which one of     *)
(* their dependencies changed (dirty), each reads the values of that       *)
(* render, and their updates are applied as one batch.                     *)
(***************************************************************************)
\* mutant: every program change overwrites the fee with the program's
\* typical one
bankFeeEffect_always ==
    IF loanType = "VA IRRRL" THEN <<1500>> ELSE <<2350>>

\* typical bank fee for VA IRRRL; dependency: loanType
bankFeeEffect ==
    IF loanType = "VA IRRRL" /\ n(bankFee) = 1500 THEN bankFee
    ELSE IF loanType = "VA IRRRL" /\ n(bankFee) = 2350 THEN <<1500>>
    ELSE IF loanType # "VA IRRRL" /\ n(bankFee) = 1500 THEN <<2350>>
    ELSE bankFee

\* temp buydowns off for non-Conventional; dependency: loanType
buydownResetEffect == loanType # "Conventional"

\* mutant: the stored cash-out is kept under VA IRRRL
cashOutClearEffect_never == FALSE

\* VA IRRRL clears cash-out; dependency: loanType
cashOutClearEffect == loanType = "VA IRRRL"

\* mutant: only VA IRRRL clears the flag
pureCashOutClearEffect_irrrlOnly == loanType = "VA IRRRL"

\* no cash-out (or IRRRL) clears pureCashOut; dependencies: loanType, cashOut
pureCashOutClearEffect == loanType = "VA IRRRL" \/ n(cashOut) = 0

RunEffects ==
    /\ dirty # {}
    /\ bankFee' = IF "loanType" \in dirty THEN bankFeeEffect ELSE bankFee
    /\ twoOneBuydown' =
         IF "loanType" \in dirty /\ buydownResetEffect THEN FALSE ELSE twoOneBuydown
    /\ oneZeroBuydown' =
         IF "loanType" \in dirty /\ buydownResetEffect THEN FALSE ELSE oneZeroBuydown
    /\ cashOut' =
         IF "loanType" \in dirty /\ cashOutClearEffect THEN Blank ELSE cashOut
    /\ pureCashOut' = IF pureCashOutClearEffect THEN FALSE ELSE pureCashOut
    /\ dirty' = IF cashOut' # cashOut THEN {"cashOut"} ELSE {}
    /\ UNCHANGED <<loanType, appraisedValue, balance, monthlyEscrow,
                   escrowMonths, debtPaid, debtMonthly, currentPITI,
                   uwmPoints, branchGenPointsInput, interestRate, termYears,
                   titleFee, isFundingFeeExempt, mortgageInsuranceRate>>

(***************************************************************************)
(* Input handlers.  A handler runs only once the effects of the previous   *)
(* change have been flushed, and only while its control is rendered.       *)
(***************************************************************************)
setLoanType(t) ==
    /\ dirty = {}
    /\ t # loanType
    /\ loanType' = t
    /\ dirty' = {"loanType"}
    /\ UNCHANGED <<appraisedValue, balance, cashOut, monthlyEscrow,
                   escrowMonths, debtPaid, debtMonthly, currentPITI,
                   pureCashOut, uwmPoints, branchGenPointsInput, interestRate,
                   termYears, bankFee, titleFee, isFundingFeeExempt,
                   mortgageInsuranceRate, twoOneBuydown, oneZeroBuydown>>

\* the cash-out input is hidden for VA IRRRL
setCashOut(v) ==
    /\ dirty = {}
    /\ loanType # "VA IRRRL"
    /\ v # cashOut
    /\ cashOut' = v
    /\ dirty' = {"cashOut"}
    /\ UNCHANGED <<loanType, appraisedValue, balance, monthlyEscrow,
                   escrowMonths, debtPaid, debtMonthly, currentPITI,
                   pureCashOut, uwmPoints, branchGenPointsInput, interestRate,
                   termYears, bankFee, titleFee, isFundingFeeExempt,
                   mortgageInsuranceRate, twoOneBuydown, oneZeroBuydown>>

\* the checkbox is rendered under the cash-out input when n(cashOut) > 0
setPureCashOut(b) ==
    /\ dirty = {}
    /\ loanType # "VA IRRRL"
    /\ n(cashOut) > 0
    /\ b # pureCashOut
    /\ pureCashOut' = b
    /\ UNCHANGED <<loanType, appraisedValue, balance, cashOut, monthlyEscrow,
                   escrowMonths, debtPaid, debtMonthly, currentPITI,
                   uwmPoints, branchGenPointsInput, interestRate,
                   termYears, bankFee, titleFee, isFundingFeeExempt,
                   mortgageInsuranceRate, twoOneBuydown, oneZeroBuydown, dirty>>

\* the debt inputs are rendered when there is cash-out and it is not pure
setDebtPaid(v) ==
    /\ dirty = {}
    /\ effectiveCashOut > 0 /\ ~pureCashOut
    /\ v # debtPaid
    /\ debtPaid' = v
    /\ UNCHANGED <<loanType, appraisedValue, balance, cashOut, monthlyEscrow,
                   escrowMonths, debtMonthly, currentPITI, pureCashOut,
                   uwmPoints, branchGenPointsInput, interestRate,
                   termYears, bankFee, titleFee, isFundingFeeExempt,
                   mortgageInsuranceRate, twoOneBuydown, oneZeroBuydown, dirty>>

setDebtMonthly(v) ==
    /\ dirty = {}
    /\ effectiveCashOut > 0 /\ ~pureCashOut
    /\ v # debtMonthly
    /\ debtMonthly' = v
    /\ UNCHANGED <<loanType, appraisedValue, balance, cashOut, monthlyEscrow,
                   escrowMonths, debtPaid, currentPITI, pureCashOut,
                   uwmPoints, branchGenPointsInput, interestRate,
                   termYears, bankFee, titleFee, isFundingFeeExempt,
                   mortgageInsuranceRate, twoOneBuydown, oneZeroBuydown, dirty>>

setCurrentPITI(v) ==
    /\ dirty = {}
    /\ v # currentPITI
    /\ currentPITI' = v
    /\ UNCHANGED <<loanType, appraisedValue, balance, cashOut, monthlyEscrow,
                   escrowMonths, debtPaid, debtMonthly, pureCashOut,
                   uwmPoints, branchGenPointsInput, interestRate,
                   termYears, bankFee, titleFee, isFundingFeeExempt,
                   mortgageInsuranceRate, twoOneBuydown, oneZeroBuydown, dirty>>

setAppraisedValue(v) ==
    /\ dirty = {}
    /\ v # appraisedValue
    /\ appraisedValue' = v
    /\ UNCHANGED <<loanType, balance, cashOut, monthlyEscrow,
                   escrowMonths, debtPaid, debtMonthly, currentPITI, pureCashOut,
                   uwmPoints, branchGenPointsInput, interestRate,
                   termYears, bankFee, titleFee, isFundingFeeExempt,
                   mortgageInsuranceRate, twoOneBuydown, oneZeroBuydown, dirty>>

setBalance(v) ==
    /\ dirty = {}
    /\ v # balance
    /\ balance' = v
    /\ UNCHANGED <<loanType, appraisedValue, cashOut, monthlyEscrow,
                   escrowMonths, debtPaid, debtMonthly, currentPITI, pureCashOut,
                   uwmPoints, branchGenPointsInput, interestRate,
                   termYears, bankFee, titleFee, isFundingFeeExempt,
                   mortgageInsuranceRate, twoOneBuydown, oneZeroBuydown, dirty>>

setMonthlyEscrow(v) ==
    /\ dirty = {}
    /\ v # monthlyEscrow
    /\ monthlyEscrow' = v
    /\ UNCHANGED <<loanType, appraisedValue, balance, cashOut,
                   escrowMonths, debtPaid, debtMonthly, currentPITI, pureCashOut,
                   uwmPoints, branchGenPointsInput, interestRate,
                   termYears, bankFee, titleFee, isFundingFeeExempt,
                   mortgageInsuranceRate, twoOneBuydown, oneZeroBuydown, dirty>>

\* bankFee is a dependency of no effect
setBankFee(v) ==
    /\ dirty = {}
    /\ v # bankFee
    /\ bankFee' = v
    /\ UNCHANGED <<loanType, appraisedValue, balance, cashOut, monthlyEscrow,
                   escrowMonths, debtPaid, debtMonthly, currentPITI, pureCashOut,
                   uwmPoints, branchGenPointsInput, interestRate,
                   termYears, titleFee, isFundingFeeExempt,
                   mortgageInsuranceRate, twoOneBuydown, oneZeroBuydown, dirty>>

setBranchGenPointsInput(v) ==
    /\ dirty = {}
    /\ v # branchGenPointsInput
    /\ branchGenPointsInput' = v
    /\ UNCHANGED <<loanType, appraisedValue, balance, cashOut, monthlyEscrow,
                   escrowMonths, debtPaid, debtMonthly, currentPITI, pureCashOut,
                   uwmPoints, interestRate,
                   termYears, bankFee, titleFee, isFundingFeeExempt,
                   mortgageInsuranceRate, twoOneBuydown, oneZeroBuydown, dirty>>

setInterestRate(v) ==
    /\ dirty = {}
    /\ v # interestRate
    /\ interestRate' = v
    /\ UNCHANGED <<loanType, appraisedValue, balance, cashOut, monthlyEscrow,
                   escrowMonths, debtPaid, debtMonthly, currentPITI, pureCashOut,
                   uwmPoints, branchGenPointsInput,
                   termYears, bankFee, titleFee, isFundingFeeExempt,
                   mortgageInsuranceRate, twoOneBuydown, oneZeroBuydown, dirty>>

\* the exemption checkbox is rendered for VA and VA IRRRL only
\* mutant: the exemption checkbox is offered under every program
setIsFundingFeeExempt_anyProgram(b) ==
    /\ dirty = {}
    /\ b # isFundingFeeExempt
    /\ isFundingFeeExempt' = b
    /\ UNCHANGED <<loanType, appraisedValue, balance, cashOut, monthlyEscrow,
                   escrowMonths, debtPaid, debtMonthly, currentPITI, pureCashOut,
                   uwmPoints, branchGenPointsInput, interestRate,
                   termYears, bankFee, titleFee,
                   mortgageInsuranceRate, twoOneBuydown, oneZeroBuydown, dirty>>

setIsFundingFeeExempt(b) ==
    /\ dirty = {}
    /\ loanType \in {"VA", "VA IRRRL"}
    /\ b # isFundingFeeExempt
    /\ isFundingFeeExempt' = b
    /\ UNCHANGED <<loanType, appraisedValue, balance, cashOut, monthlyEscrow,
                   escrowMonths, debtPaid, debtMonthly, currentPITI, pureCashOut,
                   uwmPoints, branchGenPointsInput, interestRate,
                   termYears, bankFee, titleFee,
                   mortgageInsuranceRate, twoOneBuydown, oneZeroBuydown, dirty>>

\* the buydown checkboxes are rendered for Conventional only, and do
\* nothing while disabled
toggleTwoOneBuydown(v) ==
    /\ dirty = {}
    /\ loanType = "Conventional"
    /\ ~twoOneDisabled
    /\ twoOneBuydown' = v
    /\ oneZeroBuydown' = IF v THEN FALSE ELSE oneZeroBuydown
    /\ UNCHANGED <<loanType, appraisedValue, balance, cashOut, monthlyEscrow,
                   escrowMonths, debtPaid, debtMonthly, currentPITI, pureCashOut,
                   uwmPoints, branchGenPointsInput, interestRate,
                   termYears, bankFee, titleFee, isFundingFeeExempt,
                   mortgageInsuranceRate, dirty>>

\* mutant: ticking 1/0 leaves the 2/1 flag alone
toggleOneZeroBuydown_keepOther(v) ==
    /\ dirty = {}
    /\ loanType = "Conventional"
    /\ ~oneZeroDisabled
    /\ oneZeroBuydown' = v
    /\ UNCHANGED <<loanType, appraisedValue, balance, cashOut, monthlyEscrow,
                   escrowMonths, debtPaid, debtMonthly, currentPITI, pureCashOut,
                   uwmPoints, branchGenPointsInput, interestRate,
                   termYears, bankFee, titleFee, isFundingFeeExempt,
                   mortgageInsuranceRate, twoOneBuydown, dirty>>

toggleOneZeroBuydown(v) ==
    /\ dirty = {}
    /\ loanType = "Conventional"
    /\ ~oneZeroDisabled
    /\ oneZeroBuydown' = v
    /\ twoOneBuydown' = IF v THEN FALSE ELSE twoOneBuydown
    /\ UNCHANGED <<loanType, appraisedValue, balance, cashOut, monthlyEscrow,
                   escrowMonths, debtPaid, debtMonthly, currentPITI, pureCashOut,
                   uwmPoints, branchGenPointsInput, interestRate,
                   termYears, bankFee, titleFee, isFundingFeeExempt,
                   mortgageInsuranceRate, dirty>>

setUwmPoints(v) ==
    /\ dirty = {}
    /\ v # uwmPoints
    /\ uwmPoints' = v
    /\ UNCHANGED <<loanType, appraisedValue, balance, cashOut, monthlyEscrow,
                   escrowMonths, debtPaid, debtMonthly, currentPITI, pureCashOut,
                   branchGenPointsInput, interestRate,
                   termYears, bankFee, titleFee, isFundingFeeExempt,
                   mortgageInsuranceRate, twoOneBuydown, oneZeroBuydown, dirty>>

setTitleFee(v) ==
    /\ dirty = {}
    /\ v # titleFee
    /\ titleFee' = v
    /\ UNCHANGED <<loanType, appraisedValue, balance, cashOut, monthlyEscrow,
                   escrowMonths, debtPaid, debtMonthly, currentPITI, pureCashOut,
                   uwmPoints, branchGenPointsInput, interestRate,
                   termYears, bankFee, isFundingFeeExempt,
                   mortgageInsuranceRate, twoOneBuydown, oneZeroBuydown, dirty>>

setEscrowMonths(v) ==
    /\ dirty = {}
    /\ v # escrowMonths
    /\ escrowMonths' = v
    /\ UNCHANGED <<loanType, appraisedValue, balance, cashOut, monthlyEscrow,
                   debtPaid, debtMonthly, currentPITI, pureCashOut,
                   uwmPoints, branchGenPointsInput, interestRate,
                   termYears, bankFee, titleFee, isFundingFeeExempt,
                   mortgageInsuranceRate, twoOneBuydown, oneZeroBuydown, dirty>>

setTermYears(v) ==
    /\ dirty = {}
    /\ v # termYears
    /\ termYears' = v
    /\ UNCHANGED <<loanType, appraisedValue, balance, cashOut, monthlyEscrow,
                   escrowMonths, debtPaid, debtMonthly, currentPITI, pureCashOut,
                   uwmPoints, branchGenPointsInput, interestRate,
                   bankFee, titleFee, isFundingFeeExempt,
                   mortgageInsuranceRate, twoOneBuydown, oneZeroBuydown, dirty>>

\* the MI rate input is rendered for Conventional above 80% LTV; it shows
\* the rate as a percent and stores the fraction, a cleared input stores 0
setMortgageInsuranceRate(v) ==
    /\ dirty = {}
    /\ loanType = "Conventional" /\ ltv > 80 * LtvScale
    /\ v # mortgageInsuranceRate
    /\ mortgageInsuranceRate' = v
    /\ UNCHANGED <<loanType, appraisedValue, balance, cashOut, monthlyEscrow,
                   escrowMonths, debtPaid, debtMonthly, currentPITI, pureCashOut,
                   uwmPoints, branchGenPointsInput, interestRate,
                   termYears, bankFee, titleFee, isFundingFeeExempt,
                   twoOneBuydown, oneZeroBuydown, dirty>>

(***************************************************************************)
(* The component with every control in use, over a few values per field.   *)
(* The title fee, the lender points, the escrow months, the term and the   *)
(* MI rate are not edited in this specification: they keep their initial   *)
(* values.                                                                 *)
(***************************************************************************)
Next ==
    \/ RunEffects
    \/ \E t \in LoanTypes : setLoanType(t)
    \/ \E v \in CashOutValues : setCashOut(v)
    \/ \E b \in BOOLEAN : setPureCashOut(b)
    \/ \E v \in DebtPaidValues : setDebtPaid(v)
    \/ \E v \in DebtMonthlyValues : setDebtMonthly(v)
    \/ \E v \in CurrentPITIValues : setCurrentPITI(v)
    \/ \E v \in AppraisedValues : setAppraisedValue(v)
    \/ \E v \in BalanceValues : setBalance(v)
    \/ \E v \in EscrowValues : setMonthlyEscrow(v)
    \/ \E v \in BankFeeValues : setBankFee(v)
    \/ \E v \in BranchGenValues : setBranchGenPointsInput(v)
    \/ \E v \in InterestRateValues : setInterestRate(v)
    \/ \E b \in BOOLEAN : setIsFundingFeeExempt(b)
    \/ \E v \in BOOLEAN : toggleTwoOneBuydown(v)
    \/ \E v \in BOOLEAN : toggleOneZeroBuydown(v)

Spec == Init /\ [][Next]_vars

TypeOK ==
    /\ loanType \in LoanTypes
    /\ pureCashOut \in BOOLEAN
    /\ isFundingFeeExempt \in BOOLEAN
    /\ twoOneBuydown \in BOOLEAN
    /\ oneZeroBuydown \in BOOLEAN
    /\ dirty \subseteq {"loanType", "cashOut"}

(***************************************************************************)
(* Points and compensation: the component with the points inputs edited    *)
(* over the edges of the tier table and of the 4.75% alert, on a loan with *)
(* and without a 2/1 buydown.                                              *)
(***************************************************************************)
TierPointsValues ==
    {Blank, <<0>>, <<-500>>, <<10>>, <<740>>, <<745>>, <<750>>, <<1490>>,
     <<1500>>, <<2240>>, <<2250>>, <<3000>>, <<3010>>}
UwmPointsValues == {Blank, <<2500>>, <<2510>>, <<4750>>}
NoteRateValues == {Blank, <<6500>>}

PointsNext ==
    \/ RunEffects
    \/ \E v \in TierPointsValues : setBranchGenPointsInput(v)
    \/ \E v \in UwmPointsValues : setUwmPoints(v)
    \/ \E v \in BalanceValues : setBalance(v)
    \/ \E v \in NoteRateValues : setInterestRate(v)
    \/ \E v \in BOOLEAN : toggleTwoOneBuydown(v)

PointsSpec == Init /\ [][PointsNext]_vars

(***************************************************************************)
(* Costs: the component with the fee, escrow and cash-out inputs edited,   *)
(* under every program.                                                    *)
(***************************************************************************)
TitleFeeValues == {Blank, <<900>>}
EscrowMonthsValues == {Blank, <<0>>, <<2>>, <<3>>}

CostNext ==
    \/ RunEffects
    \/ \E t \in LoanTypes : setLoanType(t)
    \/ \E v \in BalanceValues : setBalance(v)
    \/ \E v \in BankFeeValues : setBankFee(v)
    \/ \E v \in TitleFeeValues : setTitleFee(v)
    \/ \E v \in EscrowValues : setMonthlyEscrow(v)
    \/ \E v \in EscrowMonthsValues : setEscrowMonths(v)
    \/ \E v \in CashOutValues : setCashOut(v)
    \/ \E v \in BranchGenValues : setBranchGenPointsInput(v)
    \/ \E b \in BOOLEAN : setIsFundingFeeExempt(b)

CostSpec == Init /\ [][CostNext]_vars

(***************************************************************************)
(* Edge inputs: the component with the rate, the term and the appraised    *)
(* value edited over blank, zero, negative and ordinary values, and over a *)
(* positive rate below the precision of 1 + r.                             *)
(***************************************************************************)
EdgeRateValues == {Blank, <<0>>, <<-1000>>, <<1>>, <<6500>>}
EdgeTermValues == {Blank, <<0>>, <<30>>}
EdgeAppraisedValues == {Blank, <<0>>, <<-250000>>, <<250000>>}

EdgeNext ==
    \/ RunEffects
    \/ \E t \in LoanTypes : setLoanType(t)
    \/ \E v \in BalanceValues : setBalance(v)
    \/ \E v \in BankFeeValues : setBankFee(v)
    \/ \E v \in EdgeRateValues : setInterestRate(v)
    \/ \E v \in EdgeTermValues : setTermYears(v)
    \/ \E v \in EdgeAppraisedValues : setAppraisedValue(v)

EdgeSpec == Init /\ [][EdgeNext]_vars

(***************************************************************************)
(* Worked scenario: the component with the balance, the appraised value,   *)
(* the bank fee, the escrow, the rate and the term edited around the       *)
(* figures of the worked example.                                          *)
(***************************************************************************)
ScenarioBalanceValues == {Blank, <<200000>>, <<300000>>}
ScenarioAppraisedValues == {Blank, <<250000>>, <<400000>>}

ScenarioNext ==
    \/ RunEffects
    \/ \E v \in ScenarioBalanceValues : setBalance(v)
    \/ \E v \in ScenarioAppraisedValues : setAppraisedValue(v)
    \/ \E v \in BankFeeValues : setBankFee(v)
    \/ \E v \in EscrowValues : setMonthlyEscrow(v)
    \/ \E v \in InterestRateValues : setInterestRate(v)
    \/ \E v \in EdgeTermValues : setTermYears(v)

ScenarioSpec == Init /\ [][ScenarioNext]_vars

(***************************************************************************)
(* Loan-to-value: the component with the program, the loan, the appraised  *)
(* value, the cash-out, the MI rate and the 2/1 buydown edited, so that    *)
(* the LTV lies below, at and above 80% and above 96%.                     *)
(***************************************************************************)
LtvAppraisedValues == {Blank, <<205000>>, <<250000>>}
MiRateValues == {<<0>>, <<600>>, <<1000>>}

LtvNext ==
    \/ RunEffects
    \/ \E t \in LoanTypes : setLoanType(t)
    \/ \E v \in BalanceValues : setBalance(v)
    \/ \E v \in BankFeeValues : setBankFee(v)
    \/ \E v \in LtvAppraisedValues : setAppraisedValue(v)
    \/ \E v \in CashOutValues : setCashOut(v)
    \/ \E v \in NoteRateValues : setInterestRate(v)
    \/ \E v \in MiRateValues : setMortgageInsuranceRate(v)
    \/ \E v \in BOOLEAN : toggleTwoOneBuydown(v)

LtvSpec == Init /\ [][LtvNext]_vars

(***************************************************************************)
(* Buydown: the component with both buydown controls, the program, the     *)
(* cash-out and every input of the payment edited.                         *)
(***************************************************************************)
BuydownTermValues == {Blank, <<15>>, <<30>>}

BuydownNext ==
    \/ RunEffects
    \/ \E t \in LoanTypes : setLoanType(t)
    \/ \E v \in BalanceValues : setBalance(v)
    \/ \E v \in CashOutValues : setCashOut(v)
    \/ \E v \in AppraisedValues : setAppraisedValue(v)
    \/ \E v \in EscrowValues : setMonthlyEscrow(v)
    \/ \E v \in InterestRateValues : setInterestRate(v)
    \/ \E v \in BuydownTermValues : setTermYears(v)
    \/ \E v \in MiRateValues : setMortgageInsuranceRate(v)
    \/ \E v \in BOOLEAN : toggleTwoOneBuydown(v)
    \/ \E v \in BOOLEAN : toggleOneZeroBuydown(v)

BuydownSpec == Init /\ [][BuydownNext]_vars

(***************************************************************************)
(* Cash-out and consolidation: the component with the program, the         *)
(* cash-out (also 0 and negative), the pure-cash-out flag and the debt     *)
(* fields (also above the cash-out, and negative) edited.                  *)
(***************************************************************************)
ConsolCashOutValues == {Blank, <<0>>, <<-10000>>, <<10000>>, <<20000>>}
ConsolDebtPaidValues == {Blank, <<-5000>>, <<15000>>, <<25000>>}

ConsolNext ==
    \/ RunEffects
    \/ \E t \in LoanTypes : setLoanType(t)
    \/ \E v \in ConsolCashOutValues : setCashOut(v)
    \/ \E b \in BOOLEAN : setPureCashOut(b)
    \/ \E v \in ConsolDebtPaidValues : setDebtPaid(v)
    \/ \E v \in DebtMonthlyValues : setDebtMonthly(v)

ConsolSpec == Init /\ [][ConsolNext]_vars

(***************************************************************************)
(* The sibling component MortgageCalculatorMismo.  It holds the same       *)
(* fields except pureCashOut; its bank fee starts blank and one effect,    *)
(* with dependencies loanType and bankFee, fills a blank fee in.  dirty    *)
(* ranges here over {"loanType", "bankFee"}.  The ARM reset effect writes  *)
(* armType only and is left out.  The bank-fee input is not among the      *)
(* actions: the specification describes the sessions in which the user     *)
(* never types a bank fee.                                                 *)
(***************************************************************************)
MismoInit ==
    /\ loanType = "Conventional"
    /\ appraisedValue = Blank
    /\ balance = Blank
    /\ cashOut = Blank
    /\ monthlyEscrow = Blank
    /\ escrowMonths = <<2>>
    /\ debtPaid = Blank
    /\ debtMonthly = Blank
    /\ currentPITI = Blank
    /\ pureCashOut = FALSE
    /\ uwmPoints = Blank
    /\ branchGenPointsInput = Blank
    /\ interestRate = Blank
    /\ termYears = <<30>>
    /\ bankFee = Blank
    /\ titleFee = Blank
    /\ isFundingFeeExempt = FALSE
    /\ mortgageInsuranceRate = <<600>>
    /\ twoOneBuydown = FALSE
    /\ oneZeroBuydown = FALSE
    /\ dirty = {"loanType", "bankFee"}

\* default for a blank bank fee; dependencies: loanType, bankFee
MismoBankFeeEffect ==
    IF bankFee = Blank
    THEN (IF loanType = "VA IRRRL" THEN <<1500>> ELSE <<2350>>)
    ELSE bankFee

MismoRunEffects ==
    /\ dirty # {}
    /\ bankFee' = MismoBankFeeEffect
    /\ twoOneBuydown' =
         IF "loanType" \in dirty /\ loanType # "Conventional" THEN FALSE
         ELSE twoOneBuydown
    /\ oneZeroBuydown' =
         IF "loanType" \in dirty /\ loanType # "Conventional" THEN FALSE
         ELSE oneZeroBuydown
    /\ cashOut' =
         IF "loanType" \in dirty /\ loanType = "VA IRRRL" THEN Blank ELSE cashOut
    /\ dirty' = IF bankFee' # bankFee THEN {"bankFee"} ELSE {}
    /\ UNCHANGED <<loanType, appraisedValue, balance, monthlyEscrow,
                   escrowMonths, debtPaid, debtMonthly, currentPITI,
                   pureCashOut, uwmPoints, branchGenPointsInput, interestRate,
                   termYears, titleFee, isFundingFeeExempt,
                   mortgageInsuranceRate>>

MismoSetLoanType(t) ==
    /\ dirty = {}
    /\ t # loanType
    /\ loanType' = t
    /\ dirty' = {"loanType"}
    /\ UNCHANGED <<appraisedValue, balance, cashOut, monthlyEscrow,
                   escrowMonths, debtPaid, debtMonthly, currentPITI,
                   pureCashOut, uwmPoints, branchGenPointsInput, interestRate,
                   termYears, bankFee, titleFee, isFundingFeeExempt,
                   mortgageInsuranceRate, twoOneBuydown, oneZeroBuydown>>

\* hidden for VA IRRRL; cashOut is no effect's dependency in this component
MismoSetCashOut(v) ==
    /\ dirty = {}
    /\ loanType # "VA IRRRL"
    /\ v # cashOut
    /\ cashOut' = v
    /\ UNCHANGED <<loanType, appraisedValue, balance, monthlyEscrow,
                   escrowMonths, debtPaid, debtMonthly, currentPITI,
                   pureCashOut, uwmPoints, branchGenPointsInput, interestRate,
                   termYears, bankFee, titleFee, isFundingFeeExempt,
                   mortgageInsuranceRate, twoOneBuydown, oneZeroBuydown, dirty>>

\* the balance, appraised-value and escrow inputs are the same in both
\* components
MismoNext ==
    \/ MismoRunEffects
    \/ \E t \in LoanTypes : MismoSetLoanType(t)
    \/ \E v \in CashOutValues : MismoSetCashOut(v)
    \/ \E v \in BalanceValues : setBalance(v)
    \/ \E v \in AppraisedValues : setAppraisedValue(v)
    \/ \E v \in EscrowValues : setMonthlyEscrow(v)

MismoSpec == MismoInit /\ [][MismoNext]_vars

(***************************************************************************)
(* The bank fee and the funding-fee exemption across program changes.      *)
(***************************************************************************)
FeeBankFeeValues == {Blank, <<0>>, <<1500>>, <<2000>>, <<2350>>}

FeeNext ==
    \/ RunEffects
    \/ \E t \in LoanTypes : setLoanType(t)
    \/ \E v \in FeeBankFeeValues : setBankFee(v)
    \/ \E v \in CashOutValues : setCashOut(v)
    \/ \E v \in BalanceValues : setBalance(v)
    \/ \E b \in BOOLEAN : setIsFundingFeeExempt(b)

FeeSpec == Init /\ [][FeeNext]_vars

(***************************************************************************)
(* Properties.                                                             *)
(***************************************************************************)

\* C1: the buydown subsidy is 0, and the final loan amount is the
\* pre-buydown amount, whenever the program is not Conventional, or no
\* buydown is selected, or the effective cash-out is positive.
C1_SubsidyZeroUnlessApplicable ==
    (\/ loanType # "Conventional"
     \/ ~(twoOneBuydown \/ oneZeroBuydown)
     \/ effectiveCashOut > 0)
        => (buydownSubsidyCost = 0 /\ finalLoanAmount = finalLoanPreBuydown)

\* C2: once the effects of a change have run, no buydown is stored for a
\* non-Conventional program, nor for Conventional with a positive effective
\* cash-out, and no Year-1/Year-2 figures are shown in those states.
C2_BuydownNoneWhenNotAllowed ==
    dirty = {} =>
        /\ loanType # "Conventional" => ~twoOneBuydown /\ ~oneZeroBuydown
        /\ (loanType = "Conventional" /\ effectiveCashOut > 0)
              => (~twoOneBuydown /\ ~oneZeroBuydown /\ ~showTempBuydown)

\* C3: under VA IRRRL the effective cash-out and the cash to borrower are 0
\* in every render, also before the clearing effect has run, and the base
\* loan and the final loan amount are what they are without any cash-out.
C3_IrrrlIgnoresCashOut ==
    loanType = "VA IRRRL" =>
        LET b == n(balance) + n(bankFee) + n(titleFee)
                    + n(monthlyEscrow) * n(escrowMonths)
            fee == IF isFundingFeeExempt THEN 0 ELSE (b * 5) \div 1000
            pts == ((b + fee) * (n(uwmPoints) + n(branchGenPointsInput)))
                       \div (100 * PctScale)
        IN  /\ effectiveCashOut = 0
            /\ cashToBorrower = 0
            /\ baseLoanBeforePoints = b
            /\ finalLoanAmount = b + fee + pts

C3_Witness ==
    /\ loanType = "VA IRRRL"
    /\ n(cashOut) > 0
    /\ n(debtPaid) > 0
    /\ cashToBorrower = 0

\* C4: the government fee is 3.3% of the base loan for VA, 0.5% for
\* VA IRRRL (both 0 when exempt), 1.75% for FHA and 0 for Conventional; the
\* funding fee and the UFMIP are never both non-zero; and the base loan with
\* the fee is the base loan plus the fee.
C4_GovernmentFee ==
    LET b == baseLoanBeforePoints
        governmentFee == feeAmount
    IN  /\ loanType = "VA" =>
              governmentFee = IF isFundingFeeExempt THEN 0 ELSE (b * 33) \div 1000
        /\ loanType = "VA IRRRL" =>
              governmentFee = IF isFundingFeeExempt THEN 0 ELSE (b * 5) \div 1000
        /\ loanType = "FHA" => governmentFee = (b * 175) \div 10000
        /\ loanType = "Conventional" => (fundingFee = 0 /\ ufmip = 0)
        /\ ~(fundingFee # 0 /\ ufmip # 0)
        /\ baseLoanWithGovFee = b + governmentFee

C4_Witness ==
    /\ loanType = "VA"
    /\ ~isFundingFeeExempt
    /\ n(balance) > 0
    /\ fundingFee > 0

\* C5: for FHA the UFMIP (1.75% of the base loan) and the monthly MIP
\* (0.55% a year of the final loan amount) are charged whatever the
\* exemption flag says.
C5_FhaNeverExempt ==
    loanType = "FHA" =>
        /\ ufmip = (baseLoanBeforePoints * 175) \div 10000
        /\ mipMonthly = (finalLoanAmount * 55) \div (10000 * 12)
        /\ baseLoanBeforePoints >= 10000 => (ufmip > 0 /\ mipMonthly > 0)

C5_Witness ==
    /\ loanType = "FHA"
    /\ isFundingFeeExempt
    /\ dirty = {}
    /\ ufmip > 0
    /\ mipMonthly > 0

ValidInputs ==
    /\ n(appraisedValue) >= 0 /\ n(balance) >= 0 /\ n(cashOut) >= 0
    /\ n(monthlyEscrow) >= 0 /\ n(escrowMonths) >= 0
    /\ n(bankFee) >= 0 /\ n(titleFee) >= 0
    /\ n(uwmPoints) >= 0 /\ n(branchGenPointsInput) >= 0
    /\ n(interestRate) >= 0 /\ n(mortgageInsuranceRate) >= 0
    /\ n(termYears) > 0

C8_SavingsFloored ==
    /\ savingsVsPrev =
          IF n(currentPITI) > basePITI THEN n(currentPITI) - basePITI ELSE 0
    /\ savingsVsPrev >= 0
    /\ dcMonthlySavings >= 0

\* consolidating, and the new PITI is above the previous outflow: both
\* savings are floored
C8_Witness ==
    /\ isConsolidating
    /\ n(debtMonthly) > 0
    /\ n(currentPITI) + n(debtMonthly) < basePITI
    /\ savingsVsPrev = 0
    /\ dcMonthlySavings = 0

\* C9: debt is being consolidated exactly when the effective cash-out is
\* positive, the pure-cash-out flag is off and a debt field is positive;
\* then the debt paid off is min(cash-out, debt) and the borrower gets the
\* rest; otherwise no debt is paid off and the borrower gets all of it.
C9_Consolidation ==
    LET c == IF loanType = "VA IRRRL" THEN 0 ELSE n(cashOut)
        consolidating ==
            c > 0 /\ ~pureCashOut /\ (n(debtPaid) > 0 \/ n(debtMonthly) > 0)
        applied == IF c <= n(debtPaid) THEN c ELSE n(debtPaid)
    IN  /\ isConsolidating <=> consolidating
        /\ consolidating =>
              /\ debtPaidApplied = applied
              /\ cashToBorrower = IF c - applied > 0 THEN c - applied ELSE 0
        /\ ~consolidating => (debtPaidApplied = 0 /\ cashToBorrower = c)

\* cash-out 20000, debt 15000 at 500 a month: 15000 paid off, 5000 in hand
C9_Witness ==
    /\ n(cashOut) = 20000 /\ n(debtPaid) = 15000 /\ n(debtMonthly) = 500
    /\ isConsolidating
    /\ debtPaidApplied = 15000
    /\ cashToBorrower = 5000

\* C10: when consolidating, the total previous outflow is the previous PITI
\* plus the monthly debt payments and the total monthly saving is
\* max(0, outflow - new PITI); when not consolidating both are 0.
C10_ConsolidationSavings ==
    /\ isConsolidating =>
          /\ dcTotalPrevOutflow = n(currentPITI) + n(debtMonthly)
          /\ dcMonthlySavings =
                IF n(currentPITI) + n(debtMonthly) > basePITI
                THEN n(currentPITI) + n(debtMonthly) - basePITI ELSE 0
    /\ ~isConsolidating => (dcTotalPrevOutflow = 0 /\ dcMonthlySavings = 0)

\* previous PITI 2200 and 500 a month of debt: outflow 2700, a real saving
C10_Witness ==
    /\ isConsolidating
    /\ dcTotalPrevOutflow = 2700
    /\ dcMonthlySavings > 0
    /\ dcMonthlySavings = 2700 - basePITI

\* C11: the tier is read off the branch points alone: 2.25 to 3.00 is BG1,
\* 1.50 to below 2.25 is BG2, 0.75 to below 1.50 is BG3, above 0 to 0.74
\* is BG4, and every other value (0, blank, negative, above 3.00, between
\* 0.74 and 0.75) has no tier; at 2.25, 1.50 and 0.75 the higher tier
\* applies, 0.74 is BG4.
C11_TierFromBranchPoints ==
    LET p == n(branchGenPointsInput)
        t == inferredBgTier
    IN  /\ (2250 <= p /\ p <= 3000) <=> t = "BG1"
        /\ (1500 <= p /\ p < 2250) <=> t = "BG2"
        /\ (750 <= p /\ p < 1500) <=> t = "BG3"
        /\ (0 < p /\ p <= 740) <=> t = "BG4"
        /\ (p <= 0 \/ p > 3000 \/ (740 < p /\ p < 750)) <=> t = NoTier
        /\ p = 2250 => t = "BG1"
        /\ p = 1500 => t = "BG2"
        /\ p = 750 => t = "BG3"
        /\ p = 740 => t = "BG4"
        /\ p \in {0, 3010} => t = NoTier

\* 0.75 typed: the lower edge of BG3
C11_Witness ==
    /\ branchGenPointsInput = <<750>>
    /\ inferredBgTier = "BG3"

\* C12 as stated: the compensations are the final (post-buydown) loan
\* amount times the basis points of the tier, 100/80, 75/60, 50/50, 25/25,
\* nothing without a tier, and the associate's compensation never exceeds
\* the loan officer's.
C12_CompensationAsStated ==
    LET t == inferredBgTier
        lo == IF t = "BG1" THEN 100 ELSE IF t = "BG2" THEN 75
              ELSE IF t = "BG3" THEN 50 ELSE IF t = "BG4" THEN 25 ELSE 0
        loa == IF t = "BG1" THEN 80 ELSE IF t = "BG2" THEN 60
               ELSE IF t = "BG3" THEN 50 ELSE IF t = "BG4" THEN 25 ELSE 0
    IN  /\ loCompensation = (finalLoanAmount * lo) \div 10000
        /\ loaCompensation = (finalLoanAmount * loa) \div 10000
        /\ t = NoTier => (loCompensation = 0 /\ loaCompensation = 0)
        /\ loaCompensation <= loCompensation

\* C12: the same, the associate's compensation not exceeding the loan
\* officer's whenever the final loan amount is not negative.
C12_Compensation ==
    LET t == inferredBgTier
        lo == IF t = "BG1" THEN 100 ELSE IF t = "BG2" THEN 75
              ELSE IF t = "BG3" THEN 50 ELSE IF t = "BG4" THEN 25 ELSE 0
        loa == IF t = "BG1" THEN 80 ELSE IF t = "BG2" THEN 60
               ELSE IF t = "BG3" THEN 50 ELSE IF t = "BG4" THEN 25 ELSE 0
    IN  /\ loCompensation = (finalLoanAmount * lo) \div 10000
        /\ loaCompensation = (finalLoanAmount * loa) \div 10000
        /\ t = NoTier => (loCompensation = 0 /\ loaCompensation = 0)
        /\ finalLoanAmount >= 0 => loaCompensation <= loCompensation

\* BG1 on a loan enlarged by a 2/1 subsidy: 100 and 80 basis points of the
\* post-buydown amount
C12_Witness ==
    /\ inferredBgTier = "BG1"
    /\ twoOneBuydown /\ buydownSubsidyCost > 0
    /\ loCompensation > (finalLoanPreBuydown * 100) \div 10000
    /\ loaCompensation > 0
    /\ loaCompensation < loCompensation

\* C13: the total points are the lender points plus the branch points,
\* never capped; the points cost is the base loan with the government fee
\* times the whole total, also above 4.75; the alert is raised exactly when
\* the total is above 4.75, not at 4.75.
C13_PointsNeverCapped ==
    LET total == n(uwmPoints) + n(branchGenPointsInput)
    IN  /\ totalPointsEntered = total
        /\ pointsCost = (baseLoanWithGovFee * total) \div (100 * PctScale)
        /\ pointsTooHigh <=> total > 4750
        /\ total = 4750 => ~pointsTooHigh
        /\ finalLoanPreBuydown = baseLoanWithGovFee + pointsCost

\* 4.75 + 3.01 points: flagged, and charged in full
C13_Witness ==
    /\ n(uwmPoints) = 4750 /\ n(branchGenPointsInput) = 3010
    /\ pointsTooHigh
    /\ baseLoanWithGovFee > 0
    /\ pointsCost > (baseLoanWithGovFee * 4750) \div (100 * PctScale)

\* C14: the escrow cost is the monthly escrow times the escrow months; the
\* base loan before the government fee is balance + bank fee + title fee +
\* escrow cost + effective cash-out; the total costs are bank fee + title
\* fee + escrow cost + points cost + government fee; and the pre-buydown
\* loan is balance + effective cash-out + total costs, which is the base
\* loan with the government fee plus the points cost.
C14_LoanBuildUp ==
    LET c == IF loanType = "VA IRRRL" THEN 0 ELSE n(cashOut)
        esc == n(monthlyEscrow) * n(escrowMonths)
        governmentFee == feeAmount
        totalCosts == n(bankFee) + n(titleFee) + esc + pointsCost + governmentFee
    IN  /\ escrowCost = esc
        /\ baseLoanBeforePoints = n(balance) + n(bankFee) + n(titleFee) + esc + c
        /\ baseTotalCostsNoBuydown = totalCosts
        /\ finalLoanPreBuydown = n(balance) + c + totalCosts
        /\ finalLoanPreBuydown = baseLoanWithGovFee + pointsCost

\* every term is present: VA with the funding fee, a title fee, three
\* months of escrow, cash-out and points
C14_Witness ==
    /\ loanType = "VA" /\ fundingFee > 0
    /\ n(balance) > 0 /\ n(bankFee) > 0 /\ n(titleFee) > 0
    /\ escrowCost = 1200
    /\ effectiveCashOut > 0
    /\ pointsCost > 0
    /\ finalLoanPreBuydown = baseLoanWithGovFee + pointsCost

\* C15: the calculation is total: a blank input counts as 0 in every sum,
\* and the payment, and with it the PITI, is a number (not NaN, not
\* Infinity) for every input.
C15_FiguresAreNumbers ==
    LET z(v) == IF v = Blank THEN 0 ELSE v[1]
        c == IF loanType = "VA IRRRL" THEN 0 ELSE z(cashOut)
    IN  /\ baseLoanBeforePoints =
              z(balance) + z(bankFee) + z(titleFee)
                  + z(monthlyEscrow) * z(escrowMonths) + c
        /\ totalPointsEntered = z(uwmPoints) + z(branchGenPointsInput)
        /\ interestRate = Blank => PI = finalLoanAmount \div Max(1, z(termYears) * 12)
        /\ appraisedValue = Blank => ltv = 0
        /\ monthlyPIDivisor(n(interestRate), n(termYears)) # 0

\* C16: no division has a zero divisor: with a rate <= 0 the payment is
\* principal / nper, nper is at least 1 so that a blank or zero term gives
\* a single payment of the principal, and the LTV is 0 whenever the
\* appraised value is <= 0.
C16_NoDivisionByZero ==
    LET nper == IF n(termYears) * 12 >= 1 THEN n(termYears) * 12 ELSE 1
    IN  /\ monthlyPIDivisor(n(interestRate), n(termYears)) # 0
        /\ monthlyPIDivisor(y1RatePct_pre, n(termYears)) # 0
        /\ monthlyPIDivisor(y2RatePct_pre, n(termYears)) # 0
        /\ n(interestRate) <= 0 => PI = finalLoanAmount \div nper
        /\ (n(interestRate) <= 0 /\ n(termYears) <= 0) => PI = finalLoanAmount
        /\ n(appraisedValue) <= 0 => (ltv = 0 /\ ltv_pre = 0)

\* the worked example: Conventional, balance 300000, bank fee 2350, 6.5%
\* over 30 years, appraised at 400000, everything else blank
WorkedScenario ==
    /\ loanType = "Conventional"
    /\ balance = <<300000>> /\ bankFee = <<2350>>
    /\ interestRate = <<6500>> /\ termYears = <<30>>
    /\ appraisedValue = <<400000>>
    /\ monthlyEscrow = Blank /\ cashOut = Blank /\ titleFee = Blank
    /\ uwmPoints = Blank /\ branchGenPointsInput = Blank
    /\ ~twoOneBuydown /\ ~oneZeroBuydown

\* C17 as stated: in the worked example the LTV is about 75.6%, there is no
\* MI, and the payment and the PITI are about 1,909.66.
C17_ScenarioAsStated ==
    WorkedScenario =>
        /\ finalLoanAmount = 302350
        /\ ltv \in {755, 756}
        /\ miMonthly = 0
        /\ PICents >= 190966 - 5 /\ PICents <= 190966 + 5
        /\ basePITI = PI

\* C17: for a positive rate the payments add up to more than the
\* principal; in the worked example the LTV is about 75.6%, there is no MI,
\* and the payment and the PITI are about 1,911.06.
C17_Scenario ==
    /\ (n(interestRate) > 0 /\ finalLoanAmount > 0) =>
           PICents * Max(1, n(termYears) * 12) > finalLoanAmount * 100
    /\ WorkedScenario =>
           /\ finalLoanAmount = 302350
           /\ ltv \in {755, 756}
           /\ miMonthly = 0
           /\ PICents >= 191106 - 5 /\ PICents <= 191106 + 5
           /\ basePITI = PI

C17_Witness ==
    /\ WorkedScenario
    /\ dirty = {}
    /\ PICents > 191000

\* C18: the insurance depends on the program and on the LTV of the final
\* (post-buydown) loan only: FHA pays 0.55% a year of the final loan
\* amount whatever the LTV, Conventional pays the annual MI rate on it only
\* when the LTV is strictly above 80% (nothing at exactly 80% or without an
\* appraised value), VA and VA IRRRL pay neither, and the two are never
\* both non-zero.
C18_MortgageInsurance ==
    LET L == finalLoanAmount
        a == n(appraisedValue)
        over80 == a > 0 /\ L * 100 > 80 * a
    IN  /\ loanType = "FHA" =>
              (mipMonthly = (L * 55) \div (10000 * 12) /\ miMonthly = 0)
        /\ loanType = "Conventional" =>
              /\ mipMonthly = 0
              /\ miMonthly = IF over80
                             THEN (L * n(mortgageInsuranceRate)) \div (FracScale * 12)
                             ELSE 0
        /\ loanType \in {"VA", "VA IRRRL"} => (mipMonthly = 0 /\ miMonthly = 0)
        /\ (a > 0 /\ L * 100 = 80 * a) => miMonthly = 0
        /\ a <= 0 => miMonthly = 0
        /\ ~(mipMonthly # 0 /\ miMonthly # 0)

\* 80% before the buydown, above 80% with the subsidy financed: MI is due
C18_Witness ==
    /\ loanType = "Conventional"
    /\ finalLoanPreBuydown * 100 = 80 * n(appraisedValue)
    /\ buydownSubsidyCost > 0
    /\ miMonthly > 0

\* C19: the advisories are flags beside the figures, which are computed as
\* ever: FHA above 80% LTV; Conventional without cash-out above 96%;
\* Conventional with cash-out above 80%; the MI advisory for Conventional
\* above 80% only when the cash-out flag is not raised; the rate/term and
\* the cash-out flag are never raised together.
C19_Advisories ==
    LET L == finalLoanAmount
        a == n(appraisedValue)
        c == IF loanType = "VA IRRRL" THEN 0 ELSE n(cashOut)
        over80 == a > 0 /\ L * 100 > 80 * a
        over96 == a > 0 /\ L * 100 > 96 * a
    IN  /\ fhaLtvImpossible <=> (loanType = "FHA" /\ over80)
        /\ convRateTermOver96 <=> (loanType = "Conventional" /\ c = 0 /\ over96)
        /\ convCashoutOver80 <=> (loanType = "Conventional" /\ c > 0 /\ over80)
        /\ showConvMiWarning <=>
              (loanType = "Conventional" /\ over80 /\ ~convCashoutOver80)
        /\ ~(convRateTermOver96 /\ convCashoutOver80)
        /\ fhaLtvImpossible => mipMonthly = (L * 55) \div (10000 * 12)
        /\ convCashoutOver80 =>
              /\ effectiveCashOut = n(cashOut)
              /\ L = finalLoanPreBuydown + buydownSubsidyCost
              /\ miMonthly = (L * n(mortgageInsuranceRate)) \div (FracScale * 12)

\* cash-out above 96% LTV: the cash-out flag alone, no MI advisory, and
\* the MI is charged all the same
C19_Witness ==
    /\ loanType = "Conventional"
    /\ effectiveCashOut > 0
    /\ ltv > 96 * LtvScale
    /\ convCashoutOver80 /\ ~convRateTermOver96
    /\ convMiWarning /\ ~showConvMiWarning
    /\ miMonthly > 0

\* C21: for Conventional with a buydown and no cash-out the Year-1 rate is
\* the note rate less 2 (2/1) or less 1 (1/0), the Year-2 rate the note
\* rate less 1 (2/1 only); the subsidy is 12 times the floored Year-1
\* difference plus, for 2/1, 12 times the floored Year-2 difference, every
\* term on the pre-buydown loan; the final loan amount is the pre-buydown
\* loan plus the subsidy, and the final payment is computed on it.
C21_SubsidyFromPreBuydownLoan ==
    (loanType = "Conventional" /\ (twoOneBuydown \/ oneZeroBuydown)
        /\ effectiveCashOut = 0) =>
        LET pre == finalLoanPreBuydown
            rate == n(interestRate)
            term == n(termYears)
            a == n(appraisedValue)
            common == n(monthlyEscrow)
                        + (IF a > 0 /\ (pre * 100 * LtvScale) \div a > 80 * LtvScale
                           THEN (pre * n(mortgageInsuranceRate)) \div (FracScale * 12)
                           ELSE 0)
            y1r == IF twoOneBuydown THEN rate - 2000 ELSE rate - 1000
            y2r == IF twoOneBuydown THEN rate - 1000 ELSE rate
            base == monthlyPI(rate, pre, term) + common
            y1 == monthlyPI(y1r, pre, term) + common
            y2 == monthlyPI(y2r, pre, term) + common
            d1 == IF base - y1 > 0 THEN base - y1 ELSE 0
            d2 == IF base - y2 > 0 THEN base - y2 ELSE 0
            sub == 12 * d1 + (IF twoOneBuydown THEN 12 * d2 ELSE 0)
        IN  /\ y1RatePct_pre = y1r
            /\ y2RatePct_pre = y2r
            /\ basePITI_pre = base /\ y1PITI_pre = y1 /\ y2PITI_pre = y2
            /\ buydownSubsidyCost = sub
            /\ finalLoanAmount = pre + sub
            /\ PI = monthlyPI(rate, pre + sub, term)
            /\ basePITI = PI + n(monthlyEscrow) + miMonthly

\* a 2/1 buydown at 6.5%: both years cost something, and the final payment
\* is above the one on the pre-buydown loan
C21_Witness ==
    /\ loanType = "Conventional" /\ twoOneBuydown /\ effectiveCashOut = 0
    /\ n(interestRate) = 6500
    /\ diffY1 > diffY2 /\ diffY2 > 0
    /\ buydownSubsidyCost = 12 * diffY1 + 12 * diffY2
    /\ PI > PI_pre

\* C22: the ambiguous-cash-out advisory is raised exactly when the
\* effective cash-out is positive, the pure-cash-out flag is off and both
\* debt fields are 0; never together with a consolidation, and never under
\* VA IRRRL.
C22_AmbiguousCashOut ==
    LET c == IF loanType = "VA IRRRL" THEN 0 ELSE n(cashOut)
    IN  /\ showCashOutNoConsolWarning <=>
              (c > 0 /\ ~pureCashOut /\ n(debtPaid) = 0 /\ n(debtMonthly) = 0)
        /\ ~(showCashOutNoConsolWarning /\ isConsolidating)
        /\ loanType = "VA IRRRL" => ~showCashOutNoConsolWarning

\* cash-out typed, nothing said about debts
C22_Witness ==
    /\ dirty = {}
    /\ n(cashOut) = 20000
    /\ debtPaid = Blank /\ debtMonthly = Blank
    /\ showCashOutNoConsolWarning
    /\ ~isConsolidating

\* C23: whatever the toggles of the two buydown controls and the changes
\* of program and cash-out, the 2/1 and the 1/0 flag are never both set,
\* and a step that sets one leaves the other unset.
C23_SingleBuydownChoice ==
    /\ [](~(twoOneBuydown /\ oneZeroBuydown))
    /\ [][/\ (twoOneBuydown' /\ ~twoOneBuydown) => ~oneZeroBuydown'
          /\ (oneZeroBuydown' /\ ~oneZeroBuydown) => ~twoOneBuydown']_vars

\* the 1/0 choice, kept through a later cash-out entry
C23_Witness ==
    /\ dirty = {}
    /\ oneZeroBuydown /\ ~twoOneBuydown
    /\ effectiveCashOut > 0

\* C24: in MortgageCalculatorMismo, when the user never types a bank fee,
\* once the effects have run the bank fee is not blank and is 1500 under
\* VA IRRRL and 2350 under every other program, whatever the sequence of
\* program changes.
C24_DefaultFeeFollowsProgram ==
    dirty = {} =>
        /\ bankFee # Blank
        /\ n(bankFee) = IF loanType = "VA IRRRL" THEN 1500 ELSE 2350

\* C25: a switch to VA IRRRL erases the stored cash-out.  Once the effect
\* of the switch has run the cashOut field is blank; under VA IRRRL and
\* with a blank field the effective cash-out is 0 and there is neither
\* consolidation nor cash to the borrower; right after the switch back to
\* another program the same holds; and the only step that stores a
\* cash-out again is the user's entry in the cash-out input, which is not
\* offered under VA IRRRL.
C25_IrrrlErasesCashOut ==
    /\ []((loanType = "VA IRRRL" /\ "loanType" \notin dirty) => cashOut = Blank)
    /\ []((loanType = "VA IRRRL" \/ cashOut = Blank) =>
            /\ effectiveCashOut = 0
            /\ ~isConsolidating
            /\ debtPaidApplied = 0
            /\ cashToBorrower = 0)
    /\ [][/\ (loanType = "VA IRRRL" /\ loanType' # "VA IRRRL") =>
                (cashOut' = Blank /\ effectiveCashOut' = 0
                    /\ ~isConsolidating' /\ cashToBorrower' = 0)
          /\ (cashOut' # cashOut /\ cashOut' # Blank) =>
                (dirty = {} /\ loanType # "VA IRRRL" /\ loanType' = loanType)
         ]_vars

\* the effect has just erased the cash-out of a consolidation
C25_Witness ==
    /\ loanType = "VA IRRRL"
    /\ dirty = {"cashOut"}
    /\ cashOut = Blank
    /\ n(debtPaid) > 0

\* C26: in every state in which the effects have run, the pure-cash-out
\* flag is false when the program is VA IRRRL or the cash-out field is 0
\* or blank.
C26_PureFlagNeedsCashOut ==
    dirty = {} =>
        ((loanType = "VA IRRRL" \/ n(cashOut) = 0) => ~pureCashOut)

\* a pure-cash-out choice whose cash-out has just been set to 0, before the
\* effect clears it
C26_Witness ==
    /\ pureCashOut
    /\ cashOut = <<0>>
    /\ dirty = {"cashOut"}

\* C27: the effects that follow a loan-program change turn a bank fee of
\* exactly 2350 into 1500 when the new program is VA IRRRL and a bank fee
\* of exactly 1500 into 2350 when it is not, and leave every other bank fee
\* as it is; the effects that follow another change leave the bank fee as
\* it is; and a handler step that changes the bank fee changes no other
\* field, so an edit of another field leaves the bank fee unchanged.
C27_BankFeeFrame ==
    [][/\ (dirty # {} /\ "loanType" \in dirty) =>
              bankFee' = IF loanType = "VA IRRRL" /\ bankFee = <<2350>>
                         THEN <<1500>>
                         ELSE IF loanType # "VA IRRRL" /\ bankFee = <<1500>>
                              THEN <<2350>>
                              ELSE bankFee
       /\ (dirty # {} /\ "loanType" \notin dirty) => bankFee' = bankFee
       /\ (dirty = {} /\ bankFee' # bankFee) =>
              UNCHANGED <<loanType, appraisedValue, balance, cashOut,
                          monthlyEscrow, escrowMonths, debtPaid, debtMonthly,
                          currentPITI, pureCashOut, uwmPoints,
                          branchGenPointsInput, interestRate, termYears,
                          titleFee, isFundingFeeExempt, mortgageInsuranceRate,
                          twoOneBuydown, oneZeroBuydown, dirty>>
      ]_vars

\* under VA IRRRL, right after the effects of the program change (which
\* also erased a cash-out), with the typical fee of the program
C27_Witness ==
    /\ loanType = "VA IRRRL"
    /\ dirty = {"cashOut"}
    /\ bankFee = <<1500>>

\* C28: the exemption flag changes only by the user's tick under VA or
\* VA IRRRL, in a step that leaves the program as it is: no program change
\* and no effect writes it, and under Conventional and FHA it cannot be
\* toggled.  Whenever the flag is set under VA or VA IRRRL the funding fee
\* is 0, and under Conventional and FHA the government fee is the same
\* (none, or the FHA UFMIP) whether the flag is set or not.
C28_ExemptionPersists ==
    /\ [][isFundingFeeExempt' # isFundingFeeExempt =>
              /\ dirty = {}
              /\ loanType \in {"VA", "VA IRRRL"}
              /\ loanType' = loanType]_vars
    /\ []((isFundingFeeExempt /\ loanType \in {"VA", "VA IRRRL"}) =>
              (fundingFee = 0 /\ baseLoanWithGovFee = baseLoanBeforePoints))
    /\ [](loanType \in {"Conventional", "FHA"} =>
              /\ fundingFee = 0
              /\ baseLoanWithGovFee = baseLoanBeforePoints +
                    (IF loanType = "FHA"
                     THEN (baseLoanBeforePoints * FHA_UFMIP_RATE) \div FracScale
                     ELSE 0))

\* an exemption ticked under VA or VA IRRRL, kept under Conventional
C28_Witness ==
    /\ loanType = "Conventional"
    /\ isFundingFeeExempt
    /\ dirty = {}
    /\ n(balance) = 200000
    /\ baseLoanWithGovFee = baseLoanBeforePoints

\* C29 as stated: for every input the applied debt and the cash to the
\* borrower add up to the effective cash-out, the applied debt is at most
\* the effective cash-out, the cash to the borrower is never negative, and
\* it is 0 when the debt paid off exceeds the cash-out.
C29_AccountedAsStated ==
    /\ debtPaidApplied + cashToBorrower = effectiveCashOut
    /\ debtPaidApplied <= effectiveCashOut
    /\ cashToBorrower >= 0
    /\ n(debtPaid) > effectiveCashOut => cashToBorrower = 0

\* C29: for every input the applied debt and the cash to the borrower add
\* up to the effective cash-out.  When the effective cash-out is not
\* negative the applied debt is at most the cash-out and the cash to the
\* borrower is not negative, and in a consolidation whose debt paid off is
\* at least the cash-out all of the cash-out is applied and the cash to the
\* borrower is 0.  A negative cash-out is passed on as a negative cash to
\* the borrower with nothing applied, and outside a consolidation (pure
\* cash-out, no debts) the whole cash-out goes to the borrower.
C29_CashOutAccounted ==
    /\ debtPaidApplied + cashToBorrower = effectiveCashOut
    /\ effectiveCashOut >= 0 =>
          (debtPaidApplied <= effectiveCashOut /\ cashToBorrower >= 0)
    /\ (isConsolidating /\ n(debtPaid) >= effectiveCashOut) =>
          (debtPaidApplied = effectiveCashOut /\ cashToBorrower = 0)
    /\ effectiveCashOut < 0 =>
          (debtPaidApplied = 0 /\ cashToBorrower = effectiveCashOut)
    /\ ~isConsolidating =>
          (debtPaidApplied = 0 /\ cashToBorrower = effectiveCashOut)

\* a consolidation whose debt (25,000) exceeds the cash-out (20,000)
C29_Witness ==
    /\ dirty = {}
    /\ isConsolidating
    /\ effectiveCashOut = 20000
    /\ n(debtPaid) = 25000
    /\ debtPaidApplied = 20000
    /\ cashToBorrower = 0

\* C30: the subsidy is a function of the program, the buydown choice, the
\* note rate, the term and the pre-buydown loan amount alone: it is twelve
\* times the floored difference of the principal-and-interest payments at
\* the note rate and at the Year-1 rate (plus the same for Year 2 under
\* 2/1), in which the monthly escrow, the MI and the MIP do not occur.
C30_SubsidyIgnoresEscrowAndMI ==
    LET rate == n(interestRate)
        term == n(termYears)
        pre  == finalLoanPreBuydown
        cut1 == IF twoOneBuydown THEN 2 * PctScale ELSE 1 * PctScale
        pi0  == monthlyPI(rate, pre, term)
        pi1  == monthlyPI(rate - cut1, pre, term)
        pi2  == monthlyPI(rate - 1 * PctScale, pre, term)
    IN  buydownSubsidyCost =
            IF loanType = "Conventional" /\ (twoOneBuydown \/ oneZeroBuydown)
            THEN 12 * Max(0, pi0 - pi1) +
                 (IF twoOneBuydown THEN 12 * Max(0, pi0 - pi2) ELSE 0)
            ELSE 0

\* a buydown priced while escrow and MI are both part of the payment
C30_Witness ==
    /\ dirty = {}
    /\ loanType = "Conventional"
    /\ oneZeroBuydown
    /\ n(monthlyEscrow) = 400
    /\ miMonthly_pre > 0
    /\ buydownSubsidyCost > 0

====
